---- MODULE Spec2Model ----
(***************************************************************************)
(* AgroAI: the NDVI acquisition pipeline of modules/crop_analyzer.py, the  *)
(* OAuth token cache of SentinelNDVI (modules/crop_analyzer.py and         *)
(* modules/sentinel_ndvi.py) and the Telegram handler that feeds them      *)
(* (main.py).                                                              *)
(*                                                                         *)
(* Numbers.  NDVI values are binary fixed-point numbers: one tick is       *)
(* 1/TicksPerUnit.  A Python float (binary64) is any tick; a numpy float32 *)
(* keeps fewer fraction bits and is a multiple of F32Step ticks.  A        *)
(* decimal literal of the source (0.6) is the nearest tick, as the Python  *)
(* parser rounds it to the nearest binary64.                               *)
(*                                                                         *)
(* Time.  One time unit is ten minutes.                                    *)
(***************************************************************************)
EXTENDS Integers, Sequences, FiniteSets, TLC

\* ---------------------------------------------------------------- bounds
NumCallers == 2
MaxTime == 7
MaxExchanges == 3
MaxLifetime == 6
MaxTokens == 6

\* ------------------------------------------------------ number formats
TicksPerUnit == 64
F32Step == 4

\* The binary64 nearest to the decimal literal n/d (round half up).
Lit(n, d) == (2 * n * TicksPerUnit + d) \div (2 * d)

IsFloat32(v) == v % F32Step = 0

NdviMin == -TicksPerUnit
NdviMax == TicksPerUnit
NdviRange == NdviMin..NdviMax

Min2(a, b) == IF a <= b THEN a ELSE b
Max2(a, b) == IF a >= b THEN a ELSE b

\* ------------------------------------------------------------ variables
VARIABLES
    impl,            \* which SentinelNDVI class the session is an instance of
    now,             \* datetime.now(), in time units
    token,           \* self._token
    tokenExpires,    \* self._token_expires
    lifetime,        \* provider side: the lifetime it reports for every token
    issued,          \* provider side: number of tokens issued so far
    exchanges,       \* number of POSTs sent to /oauth/token
    callPc,          \* caller -> "idle" | "waiting"
    callRet,         \* caller -> what its last get_access_token returned
    callLate         \* caller -> last return was at or after reported expiry - margin

tokenVars == <<impl, now, token, tokenExpires, lifetime, issued, exchanges, callPc, callRet,
               callLate>>

VARIABLES
    sentinel,        \* CropAnalyzer.sentinel is an object (TRUE) or None (FALSE)
    stac,            \* CropAnalyzer.stac is a client (TRUE) or None (FALSE)
    pc,              \* position of the one request inside analyze_ndvi_only
    entry,           \* who called analyze_ndvi_only: "direct" | "bot"
    stageLog,        \* the provider stages entered by this run, in order
    stageOutcome,    \* stage -> "none" | "success" | "failure"
    days,            \* get_ndvi: the window of the current attempt
    items,           \* number of scenes the catalog search returned
    idx,             \* index of the scene the loop is at
    dateBound,       \* the loop's local `date` has been assigned
    result           \* the dict analyze_ndvi_only returns

pipeVars == <<sentinel, stac, pc, entry, stageLog, stageOutcome, days, items, idx, dateBound, result>>

VARIABLES
    userState,       \* users.state of the one user
    replies,         \* texts sent to the user for the current message
    saved,           \* rows written to ndvi_analyses
    advice,          \* process_ndvi_coordinates: what generate_ndvi_advice returned
    registered       \* the user has a row in the table users

botVars == <<userState, replies, saved, advice, registered>>

VARIABLES
    requested,       \* the windows (days) get_ndvi has requested in this run
    usedValid        \* valid_mask.sum() of the scene the result was taken from

histVars == <<requested, usedValid>>

VARIABLES
    attempt,         \* get_ndvi(..., attempt) of sentinel_ndvi.py
    pixels,          \* the pixels of the last response or of the scene downloaded
    month,           \* datetime.now().month, read by the calendar estimate
    statsBody        \* what find_stats got out of the Statistical API answer

provVars == <<attempt, pixels, month, statsBody>>

VARIABLES
    parsed,          \* process_ndvi_coordinates: the numbers parsed from the text
    geom             \* what lines 344-376 made of them

geoVars == <<parsed, geom>>

auxVars == <<histVars, provVars, geoVars>>

vars == <<tokenVars, pipeVars, botVars, auxVars>>

\* ------------------------------------------------- the token session
NoToken == 0
NoExpiry == -1
CacheMinutes == 5
NominalLifetime == 6
SafetyMargin == 1

Callers == 1..NumCallers
Lifetimes == 2..MaxLifetime
Impls == {"crop_analyzer", "sentinel_ndvi"}

\* the responses of the token endpoint
ExchangeOutcomes == {"ok", "http_error", "network_error", "no_access_token"}

\* if self._token and self._token_expires and datetime.now() < self._token_expires
CacheValid == token # NoToken /\ tokenExpires # NoExpiry /\ now < tokenExpires

InFlight == {c \in Callers : callPc[c] = "waiting"}

TokenInit ==
    /\ impl \in Impls
    /\ now = 0
    /\ token = NoToken
    /\ tokenExpires = NoExpiry
    /\ lifetime \in Lifetimes
    /\ issued = 0
    /\ exchanges = 0
    /\ callPc = [c \in Callers |-> "idle"]
    /\ callRet = [c \in Callers |-> NoToken]
    /\ callLate = [c \in Callers |-> FALSE]

\* The expiry the provider reported for the cached token: the token was
\* cached, with the window of CacheMinutes, the moment it was issued.
ReportedExpiry == tokenExpires - CacheMinutes + lifetime

\* Is a token with the reported expiry e, handed out at time t, within the
\* margin of its expiry or past it?
TooLate(e, t) == t >= e - SafetyMargin

\* get_access_token up to its first await: the cache check, and on a miss
\* the POST to the token endpoint.
GetAccessToken_Begin(c) ==
    /\ callPc[c] = "idle"
    /\ IF CacheValid
       THEN /\ callRet' = [callRet EXCEPT ![c] = token]
            /\ callLate' = [callLate EXCEPT ![c] = TooLate(ReportedExpiry, now)]
            /\ UNCHANGED <<callPc, exchanges>>
       ELSE /\ exchanges < MaxExchanges
            /\ exchanges' = exchanges + 1
            /\ callPc' = [callPc EXCEPT ![c] = "waiting"]
            /\ UNCHANGED <<callRet, callLate>>
    /\ UNCHANGED <<impl, now, token, tokenExpires, lifetime, issued>>
    /\ UNCHANGED pipeVars
    /\ UNCHANGED botVars
    /\ UNCHANGED auxVars

\* What the session holds after a response, per implementation.
\* crop_analyzer.py: result['access_token'] raises KeyError before any
\* assignment; sentinel_ndvi.py: result.get('access_token') stores None and
\* the expiry is set all the same.
TokenAfter(outcome, fresh) ==
    CASE outcome = "ok" -> fresh
      [] outcome = "no_access_token" /\ impl = "sentinel_ndvi" -> NoToken
      [] OTHER -> token

\* a variant that keeps an expiry once one is stored
ExpiresAfter_KeepFirst(outcome) ==
    IF tokenExpires # NoExpiry THEN tokenExpires
    ELSE IF outcome = "ok" THEN now + CacheMinutes ELSE tokenExpires

\* self._token_expires after the response
ExpiresAfter(outcome) ==
    CASE outcome = "ok" -> now + CacheMinutes
      [] outcome = "no_access_token" /\ impl = "sentinel_ndvi" -> now + CacheMinutes
      [] OTHER -> tokenExpires

ReturnedAfter(outcome, fresh) == IF outcome = "ok" THEN fresh ELSE NoToken

\* get_access_token after the await: the response of the token endpoint.
GetAccessToken_Response(c) ==
    /\ callPc[c] = "waiting"
    /\ \E outcome \in ExchangeOutcomes :
         LET fresh == issued + 1 IN
         /\ token' = TokenAfter(outcome, fresh)
         /\ tokenExpires' = ExpiresAfter(outcome)
         /\ issued' = IF outcome = "ok" THEN fresh ELSE issued
         /\ callRet' = [callRet EXCEPT ![c] = ReturnedAfter(outcome, fresh)]
         /\ callLate' = [callLate EXCEPT ![c] =
                            outcome = "ok" /\ TooLate(now + lifetime, now)]
    /\ callPc' = [callPc EXCEPT ![c] = "idle"]
    /\ UNCHANGED <<impl, now, lifetime, exchanges>>
    /\ UNCHANGED pipeVars
    /\ UNCHANGED botVars
    /\ UNCHANGED auxVars

\* --------------------------------------------------- classification
ExcellentThreshold == Lit(6, 10)
GoodThreshold == Lit(4, 10)
MediumThreshold == Lit(2, 10)

\* a variant of _interpret_ndvi with strict comparisons
InterpretNdvi_Strict(ndvi) ==
    IF ndvi > ExcellentThreshold THEN "excellent"
    ELSE IF ndvi > GoodThreshold THEN "good"
    ELSE IF ndvi > MediumThreshold THEN "medium"
    ELSE "bad"

\* SentinelNDVI._interpret_ndvi (both classes)
InterpretNdvi(ndvi) ==
    IF ndvi >= ExcellentThreshold THEN "excellent"
    ELSE IF ndvi >= GoodThreshold THEN "good"
    ELSE IF ndvi >= MediumThreshold THEN "medium"
    ELSE "bad"

\* analyze_ndvi_only, the secondary path's own if-chain
SecondaryStatus(mean_ndvi) ==
    IF mean_ndvi > ExcellentThreshold THEN "excellent"
    ELSE IF mean_ndvi > GoodThreshold THEN "good"
    ELSE IF mean_ndvi > MediumThreshold THEN "medium"
    ELSE "bad"

\* analyze_ndvi_only, primary path: status -> key of MESSAGES
StatusKey(status) ==
    CASE status = "excellent" -> "ndvi_excellent"
      [] status = "good" -> "ndvi_good"
      [] status = "medium" -> "ndvi_medium"
      [] OTHER -> "ndvi_bad"

\* ----------------------------------- primary provider: get_ndvi
DefaultDays == 30
MaxDays == 90
StatSpread == 4

\* _get_statistics: what the Statistical API answered
StatsKinds == {"stats", "no_mean", "empty", "http_error", "exception"}

\* The dict _get_statistics returns for a response that carries a mean:
\* min defaults to 0, max to 1, stDev to 0 when the field is absent.
StatsDict(mean, hasMin, hasMax) ==
    [mean |-> mean,
     min |-> IF hasMin THEN Max2(NdviMin, mean - StatSpread) ELSE 0,
     max |-> IF hasMax THEN Min2(NdviMax, mean + StatSpread) ELSE Lit(1, 1),
     stdev |-> IF hasMin /\ hasMax THEN StatSpread ELSE 0,
     date |-> "date"]

\* analyze_ndvi_only, lines 531-561: the result built from get_ndvi's success
PrimaryResult(stats) ==
    [ndvi_value |-> stats.mean,
     status |-> InterpretNdvi(stats.mean),
     summary |-> StatusKey(InterpretNdvi(stats.mean)),
     date |-> stats.date,
     min |-> stats.min,
     max |-> stats.max,
     std |-> stats.stdev]

\* -------------------------------- secondary provider: the scene loop
SearchLimit == 5
ScenesTried == 3
ValidLow == Lit(-5, 10)
ValidHigh == Lit(1, 1)

\* a variant in which the band arrays are float64: the mean keeps every tick
Float64Mean(v) == v

\* float(ndvi[valid_mask].mean()): the mean of a float32 array is rounded to
\* float32 (numpy keeps the dtype), then widened exactly to a Python float
Float32Mean(v) == ((2 * v + F32Step) \div (2 * F32Step)) * F32Step

\* the float32 pixels that pass the filter (ndvi > -0.5) & (ndvi < 1.0)
ValidPixels == {v \in NdviRange : IsFloat32(v) /\ v > ValidLow /\ v < ValidHigh}

\* the exact means of such pixels: every value between two of them
RawMeans == {v \in NdviRange : \E a, b \in ValidPixels : a <= v /\ v <= b}

ValidCounts == {0, 50, 400}

SceneOutcomes == {"no_datetime", "http_error", "exception", "image_error", "computed"}

\* analyze_ndvi_only, lines 672-680
SecondaryResult(mean, spread) ==
    [ndvi_value |-> mean,
     status |-> SecondaryStatus(mean),
     summary |-> StatusKey(SecondaryStatus(mean)),
     date |-> "date",
     min |-> Max2(ValidLow + F32Step, mean - spread),
     max |-> Min2(ValidHigh - F32Step, mean + spread),
     std |-> spread]

\* analyze_ndvi_only, the dicts of lines 569-574, 589-594, 688-693, 699-704
FailureResult(status) ==
    [ndvi_value |-> 0, status |-> status, summary |-> "no_data", date |-> "None"]

NoResult == [status |-> "none"]

Stages == {"primary", "secondary", "estimate"}

PipeInit ==
    /\ sentinel \in BOOLEAN
    /\ stac \in BOOLEAN
    /\ pc = "idle"
    /\ entry = "none"
    /\ stageLog = << >>
    /\ stageOutcome = [s \in Stages |-> "none"]
    /\ days = DefaultDays
    /\ items = 0
    /\ idx = 0
    /\ dateBound = FALSE
    /\ result = NoResult

\* The body of analyze_ndvi_only starts: `if self.sentinel:` (line 527)
BeginPipeline(caller) ==
    /\ entry' = caller
    /\ stageOutcome' = [s \in Stages |-> "none"]
    /\ days' = DefaultDays
    /\ items' = 0
    /\ idx' = 0
    /\ dateBound' = FALSE
    /\ result' = NoResult
    /\ requested' = << >>
    /\ usedValid' = 0
    /\ IF sentinel
       THEN pc' = "get_ndvi" /\ stageLog' = <<"primary">>
       ELSE pc' = "try_secondary" /\ stageLog' = << >>
    /\ UNCHANGED <<sentinel, stac>>

\* a variant in which a failure of the primary stage ends the request
PrimaryFails_Abort ==
    /\ result' = FailureResult("error")
    /\ pc' = "return"
    /\ stageOutcome' = [stageOutcome EXCEPT !["primary"] = "failure"]
    /\ UNCHANGED <<sentinel, stac, entry, stageLog, days, items, idx, dateBound>>

\* The primary stage ends in a failure: line 563, fall through to line 565
PrimaryFails ==
    /\ pc' = "try_secondary"
    /\ stageOutcome' = [stageOutcome EXCEPT !["primary"] = "failure"]
    /\ UNCHANGED <<sentinel, stac, entry, stageLog, days, items, idx, dateBound, result>>

\* a variant of the primary stage's success without its `return`
PrimarySucceeds_FallThrough(stats) ==
    /\ result' = PrimaryResult(stats)
    /\ pc' = "try_secondary"
    /\ stageOutcome' = [stageOutcome EXCEPT !["primary"] = "success"]
    /\ UNCHANGED <<sentinel, stac, entry, stageLog, days, items, idx, dateBound>>

\* The primary stage succeeds: lines 531-561, the dict is returned
PrimarySucceeds(stats) ==
    /\ result' = PrimaryResult(stats)
    /\ pc' = "return"
    /\ stageOutcome' = [stageOutcome EXCEPT !["primary"] = "success"]
    /\ UNCHANGED <<sentinel, stac, entry, stageLog, days, items, idx, dateBound>>

\* get_ndvi line 111: token = await self.get_access_token(); a single
\* request runs it without interleaving
GetNdvi_Token ==
    /\ pc = "get_ndvi"
    /\ IF CacheValid
       THEN /\ pc' = "get_statistics"
            /\ UNCHANGED <<token, tokenExpires, issued, exchanges>>
            /\ UNCHANGED <<sentinel, stac, entry, stageLog, stageOutcome, days, items, idx,
                           dateBound, result>>
       ELSE /\ exchanges < MaxExchanges
            /\ exchanges' = exchanges + 1
            /\ \E outcome \in ExchangeOutcomes :
                 LET fresh == issued + 1 IN
                 /\ token' = TokenAfter(outcome, fresh)
                 /\ tokenExpires' = ExpiresAfter(outcome)
                 /\ issued' = IF outcome = "ok" THEN fresh ELSE issued
                 /\ IF ReturnedAfter(outcome, fresh) # NoToken
                    THEN /\ pc' = "get_statistics"
                         /\ UNCHANGED <<sentinel, stac, entry, stageLog, stageOutcome, days,
                                        items, idx, dateBound, result>>
                    ELSE PrimaryFails
    /\ UNCHANGED <<impl, now, lifetime, callPc, callRet, callLate>>
    /\ UNCHANGED botVars
    /\ UNCHANGED auxVars

\* get_ndvi lines 129-150 with _get_statistics, and on success
\* analyze_ndvi_only lines 531-561
GetNdvi_Statistics ==
    /\ pc = "get_statistics"
    /\ \E kind \in StatsKinds, mean \in NdviRange, hasMin, hasMax \in BOOLEAN :
         IF kind = "stats"
         THEN PrimarySucceeds(StatsDict(mean, hasMin, hasMax))
         ELSE IF days < MaxDays
              THEN /\ days' = Min2(days * 2, MaxDays)
                   /\ pc' = "get_ndvi"
                   /\ UNCHANGED <<sentinel, stac, entry, stageLog, stageOutcome, items, idx,
                                  dateBound, result>>
              ELSE PrimaryFails
    /\ requested' = Append(requested, days)
    /\ UNCHANGED <<usedValid, provVars, geoVars>>
    /\ UNCHANGED tokenVars
    /\ UNCHANGED botVars

\* The secondary stage ends without a scene: one of the failure dicts
SecondaryFails(status) ==
    /\ result' = FailureResult(status)
    /\ pc' = "return"
    /\ stageOutcome' = [stageOutcome EXCEPT !["secondary"] = "failure"]

\* analyze_ndvi_only lines 565-594: the client check and the catalog search
TrySecondary ==
    /\ pc = "try_secondary"
    /\ stageLog' = Append(stageLog, "secondary")
    /\ IF ~stac
       THEN SecondaryFails("error") /\ UNCHANGED <<items, idx>>
       ELSE \E raises \in BOOLEAN, found \in 0..SearchLimit :
              CASE raises -> SecondaryFails("error") /\ UNCHANGED <<items, idx>>
                [] found = 0 -> SecondaryFails("no_data") /\ UNCHANGED <<items, idx>>
                [] OTHER -> /\ items' = found
                            /\ idx' = 1
                            /\ pc' = "scene"
                            /\ UNCHANGED <<stageOutcome, result>>
    /\ UNCHANGED <<sentinel, stac, entry, days, dateBound>>
    /\ UNCHANGED tokenVars
    /\ UNCHANGED botVars
    /\ UNCHANGED auxVars

\* The loop moves past scene idx: the next of items[:3], or lines 686-693
NextScene ==
    IF idx < Min2(items, ScenesTried)
    THEN /\ idx' = idx + 1
         /\ UNCHANGED <<pc, stageOutcome, result>>
    ELSE /\ SecondaryFails("error")
         /\ UNCHANGED idx

\* line 646: `if valid_mask.sum() == 0: continue`
EnoughValid(valid) == valid # 0

\* analyze_ndvi_only lines 597-684: one iteration of `for item in items[:3]`
TryScene ==
    /\ pc = "scene"
    /\ \E outcome \in SceneOutcomes, valid \in ValidCounts, raw \in RawMeans,
          spread \in {0, F32Step} :
         LET mean == Float32Mean(raw) IN
         CASE outcome = "no_datetime" ->
                \* line 599 raises; the handler of line 682 formats `date`,
                \* unbound in the first iteration: the outer handler returns
                IF dateBound
                THEN NextScene /\ UNCHANGED <<dateBound, usedValid>>
                ELSE SecondaryFails("error") /\ UNCHANGED <<idx, dateBound, usedValid>>
           [] outcome \in {"http_error", "exception", "image_error"} ->
                NextScene /\ dateBound' = TRUE /\ UNCHANGED usedValid
           [] OTHER ->
                IF ~EnoughValid(valid)
                THEN NextScene /\ dateBound' = TRUE /\ UNCHANGED usedValid
                ELSE /\ result' = SecondaryResult(mean, spread)
                     /\ pc' = "return"
                     /\ stageOutcome' = [stageOutcome EXCEPT !["secondary"] = "success"]
                     /\ dateBound' = TRUE
                     /\ usedValid' = valid
                     /\ UNCHANGED idx
    /\ UNCHANGED <<sentinel, stac, entry, stageLog, days, items>>
    /\ UNCHANGED <<requested, provVars, geoVars>>
    /\ UNCHANGED tokenVars
    /\ UNCHANGED botVars


\* ------------------------------------------------ the Telegram handler
CoordValues == {-100, 0, 52, 200}

\* A Python float, in miniature: an integer number of degrees m * 2^e with
\* |m| < 2^FloatBits; the result of an operation is the nearest such number,
\* ties to the even m.
FloatBits == 5

Pow2(e) == 2^e

Abs(x) == IF x < 0 THEN -x ELSE x

\* the exponent of the quotient a / d (a >= 0, d > 0)
FloatExp(a, d) ==
    CHOOSE e \in 0..6 :
        /\ a < Pow2(FloatBits + e) * d
        /\ e = 0 \/ a >= Pow2(FloatBits + e - 1) * d

\* a / d rounded to an integer, ties to even (a >= 0, d > 0)
RoundHalfEven(a, d) ==
    LET fl == a \div d
        r == a - fl * d
    IN IF 2 * r > d \/ (2 * r = d /\ fl % 2 = 1) THEN fl + 1 ELSE fl

\* the float nearest to n / d (d > 0)
RoundFloat(n, d) ==
    LET a == Abs(n)
        q == Pow2(FloatExp(a, d))
        m == RoundHalfEven(a, d * q) * q
    IN IF n < 0 THEN -m ELSE m

\* sum(q): the additions are made left to right, each one rounded
RECURSIVE FloatSumFrom(_, _)
FloatSumFrom(acc, q) ==
    IF q = << >> THEN acc ELSE FloatSumFrom(RoundFloat(acc + Head(q), 1), Tail(q))

FloatSum(q) == FloatSumFrom(0, q)

\* sum(q) / len(q)
FloatMean(q) == RoundFloat(FloatSum(q), Len(q))

RECURSIVE SeqSum(_)
SeqSum(q) == IF q = << >> THEN 0 ELSE Head(q) + SeqSum(Tail(q))

SeqMin(q) == CHOOSE m \in {q[i] : i \in DOMAIN q} : \A i \in DOMAIN q : m <= q[i]
SeqMax(q) == CHOOSE m \in {q[i] : i \in DOMAIN q} : \A i \in DOMAIN q : m >= q[i]

\* coords[0::2] and coords[1::2]
Lats(coords) == [i \in 1..(Len(coords) \div 2) |-> coords[2 * i - 1]]
Lons(coords) == [i \in 1..(Len(coords) \div 2) |-> coords[2 * i]]

\* a variant that takes any three or more numbers as a polygon
GeometryMode_NoParityCheck(coords) ==
    CASE Len(coords) = 2 -> "point"
      [] Len(coords) = 4 -> "bbox"
      [] Len(coords) >= 3 -> "polygon"
      [] OTHER -> "invalid"

\* process_ndvi_coordinates lines 344-372: the branch taken for a token count
GeometryMode(coords) ==
    CASE Len(coords) = 2 -> "point"
      [] Len(coords) = 4 -> "bbox"
      [] Len(coords) >= 6 /\ Len(coords) % 2 = 0 -> "polygon"
      [] OTHER -> "invalid"

\* lines 346, 354-355, 365-366: the center
CenterLat(coords) == FloatMean(Lats(coords))
CenterLon(coords) == FloatMean(Lons(coords))

\* lines 374-376: the range check, made on the center alone
CenterInRange(coords) ==
    /\ -90 <= CenterLat(coords) /\ CenterLat(coords) <= 90
    /\ -180 <= CenterLon(coords) /\ CenterLon(coords) <= 180

\* lines 347, 356, 369
BBox(coords) ==
    IF GeometryMode(coords) = "point" THEN << >>
    ELSE <<SeqMin(Lons(coords)), SeqMin(Lats(coords)),
           SeqMax(Lons(coords)), SeqMax(Lats(coords))>>

GeometryValid(coords) == GeometryMode(coords) # "invalid" /\ CenterInRange(coords)

\* nothing parsed yet
NoGeometry == [mode |-> "none"]

\* raise ValueError(...): lines 372 and 376
InvalidGeometry == [mode |-> "InvalidGeometry"]

\* lines 344-376 as a whole: lat, lon and bbox, or the ValueError
ResolveGeometry(coords) ==
    IF ~GeometryValid(coords) THEN InvalidGeometry
    ELSE [mode |-> GeometryMode(coords), lat |-> CenterLat(coords),
          lon |-> CenterLon(coords), bbox |-> BBox(coords)]

\* get_ndvi lines 115-120: the box around a point, offset 0.0045 degrees;
\* in units of 1/DegScale degree
DegScale == 10000
PointOffset == 45

PointBBox(lat, lon) ==
    <<lon * DegScale - PointOffset, lat * DegScale - PointOffset,
      lon * DegScale + PointOffset, lat * DegScale + PointOffset>>

\* the box the request is made for, in units of 1/DegScale degree
EffectiveBBox(g) ==
    IF g.mode = "point" THEN PointBBox(g.lat, g.lon)
    ELSE [i \in 1..4 |-> g.bbox[i] * DegScale]

\* what the user's text parses to: text.replace(',', ' ').split()
TokenLists == UNION {[1..n -> CoordValues] : n \in 0..MaxTokens}

\* the lists that pass lines 344-376 without a ValueError
ValidTokenLists == {c : c \in {d \in TokenLists : GeometryValid(d)}}

\* get_ndvi lines 115-120: the box of the statistics request is built from
\* lat and lon, the only geometry get_ndvi receives
RequestBBox(g) == PointBBox(g.lat, g.lon)

\* the parameters of `async def analyze_ndvi_only(self, lat, lon, lang)`
AnalyzeParams == {"lat", "lon", "lang"}

\* the keyword arguments main.py passes (lines 386-391)
BotCallArgs == {"lat", "lon", "lang", "bbox"}

\* Python binds a call only if every keyword names a parameter
Binds(args, params) == args \subseteq params

\* the keys Database.save_ndvi_analysis reads from the result
SaveKeys == {"ndvi", "health_ru", "moisture", "temperature",
             "recommendations_uz", "recommendations_ru"}

\* Database.set_user_state: an UPDATE of the user's row, if there is one
SetUserState(state) == userState' = IF registered THEN state ELSE userState

\* _get_fallback_ndvi_advice: the text chosen for ndvi_data['ndvi_value'],
\* named by the condition it describes; both languages use one if-chain
FallbackNdviAdvice(ndvi) ==
    IF ndvi > ExcellentThreshold THEN "excellent"
    ELSE IF ndvi > GoodThreshold THEN "good"
    ELSE IF ndvi > MediumThreshold THEN "medium"
    ELSE "bad"

\* the user has chosen a language and sent nothing yet
BotInit ==
    /\ userState = "None"
    /\ replies = << >>
    /\ saved = 0
    /\ advice = "none"
    /\ registered = TRUE

\* handle_message lines 206-211: the NDVI button
PressNdviButton ==
    /\ pc = "idle"
    /\ SetUserState("awaiting_ndvi_coords")
    /\ replies' = <<"send_coordinates">>
    /\ UNCHANGED <<saved, advice, registered>>
    /\ UNCHANGED tokenVars
    /\ UNCHANGED pipeVars
    /\ UNCHANGED auxVars

\* handle_message lines 230-235: the back button
PressBack ==
    /\ pc = "idle"
    /\ SetUserState("None")
    /\ replies' = <<"menu">>
    /\ UNCHANGED <<saved, advice, registered>>
    /\ UNCHANGED tokenVars
    /\ UNCHANGED pipeVars
    /\ UNCHANGED auxVars

\* a variant that answers a bad geometry with the generic error text
RejectCoordinates_Generic ==
    /\ replies' = <<"error">>
    /\ UNCHANGED pipeVars
    /\ UNCHANGED histVars

\* lines 430-435: `except ValueError`, the invalid_coords reply
RejectCoordinates ==
    /\ replies' = <<"invalid_coords">>
    /\ UNCHANGED pipeVars
    /\ UNCHANGED histVars

\* process_ndvi_coordinates up to the call of analyze_ndvi_only, and the
\* handlers of lines 430-450 when the geometry or the call raises
HandleCoordinates(numbers) ==
    /\ IF numbers \notin ValidTokenLists
       THEN RejectCoordinates
       ELSE IF Binds(BotCallArgs, AnalyzeParams)
            THEN /\ replies' = <<"loading_satellite">>
                 /\ BeginPipeline("bot")
            ELSE \* TypeError: caught by `except Exception`
                 /\ replies' = <<"loading_satellite", "error">>
                 /\ UNCHANGED pipeVars
                 /\ UNCHANGED histVars
    /\ UNCHANGED <<userState, saved, advice, registered>>

ProcessNdviCoordinates ==
    /\ pc = "idle"
    /\ userState = "awaiting_ndvi_coords"
    /\ \E numbers \in TokenLists : HandleCoordinates(numbers)
    /\ UNCHANGED <<provVars, geoVars>>
    /\ UNCHANGED tokenVars

\* the values of users.state the program writes, and NULL
UserStates == {"None", "awaiting_plant_photo", "awaiting_ndvi_coords", "awaiting_credit",
               "awaiting_advice_question"}

\* a menu button that starts no NDVI work: the reply, the state written
MenuButton(reply, state) ==
    /\ SetUserState(state)
    /\ replies' = <<reply>>
    /\ UNCHANGED <<saved, advice, registered>>
    /\ UNCHANGED tokenVars
    /\ UNCHANGED pipeVars
    /\ UNCHANGED auxVars

\* handle_message lines 198-203: the plant analysis button
PressPlantButton ==
    /\ pc = "idle"
    /\ MenuButton("send_photo", "awaiting_plant_photo")

\* handle_message lines 214-219: the credit button
PressCreditButton ==
    /\ pc = "idle"
    /\ MenuButton("send_credit_data", "awaiting_credit")

\* handle_message lines 222-223 and show_advice_categories lines 518-533
PressAdviceButton ==
    /\ pc = "idle"
    /\ MenuButton("choose_category", "awaiting_advice_question")

\* handle_message lines 226-227 and show_settings lines 574-582
PressSettingsButton ==
    /\ pc = "idle"
    /\ MenuButton("settings", userState)

\* language_callback lines 170-185: register_user replaces the user's row
LanguageCallback ==
    /\ pc = "idle"
    /\ registered' = TRUE
    /\ userState' = "None"
    /\ replies' = <<"welcome", "menu">>
    /\ UNCHANGED <<saved, advice>>
    /\ UNCHANGED tokenVars
    /\ UNCHANGED pipeVars
    /\ UNCHANGED auxVars

\* process_credit_data lines 456-483 and process_advice_question lines
\* 535-554: the answer and the state reset, or the error text
ProcessOther(done) ==
    /\ \/ replies' = <<"processing", done>> /\ SetUserState("None")
       \/ replies' = <<"processing", "error">> /\ UNCHANGED userState
    /\ UNCHANGED <<saved, advice, registered>>
    /\ UNCHANGED pipeVars
    /\ UNCHANGED histVars

\* the texts sent to the menu: they parse to nothing, to one number or to
\* the two numbers of a point (line 344)
PointTexts == {c \in TokenLists : Len(c) <= 2}

\* handle_message lines 241-248: a text that is no button is dispatched by
\* the state get_user_state returned; no branch, no reply
HandleText ==
    /\ pc = "idle"
    /\ \E numbers \in PointTexts :
         /\ parsed' = numbers
         /\ CASE userState = "awaiting_ndvi_coords" -> HandleCoordinates(numbers)
              [] userState = "awaiting_credit" -> ProcessOther("credit_result")
              [] userState = "awaiting_advice_question" -> ProcessOther("ai_answer")
              [] OTHER -> /\ replies' = << >>
                          /\ UNCHANGED <<userState, saved, advice, registered>>
                          /\ UNCHANGED pipeVars
                          /\ UNCHANGED histVars
    /\ UNCHANGED <<provVars, geom>>
    /\ UNCHANGED tokenVars

\* the same handler on the numbers of one given message, with what lines
\* 344-376 made of them kept
Geometry_Resolve ==
    /\ geom = NoGeometry
    /\ pc = "idle"
    /\ userState = "awaiting_ndvi_coords"
    /\ geom' = ResolveGeometry(parsed)
    /\ HandleCoordinates(parsed)
    /\ UNCHANGED parsed
    /\ UNCHANGED provVars
    /\ UNCHANGED tokenVars

\* analyze_ndvi_only called with its own parameters
AnalyzeNdviOnly ==
    /\ pc = "idle"
    /\ Binds(AnalyzeParams, AnalyzeParams)
    /\ BeginPipeline("direct")
    /\ UNCHANGED botVars
    /\ UNCHANGED <<provVars, geoVars>>
    /\ UNCHANGED tokenVars

\* process_ndvi_coordinates lines 393-403: the progress text, then
\* generate_ndvi_advice (crop_analyzer.py lines 710-746): the model's answer,
\* or the fallback text without an API key or when the call raises
Handler_Advice ==
    /\ pc = "return"
    /\ entry = "bot"
    /\ advice = "none"
    /\ replies' = replies \o <<"generating_advice">>
    /\ advice' \in {"ai", FallbackNdviAdvice(result.ndvi_value)}
    /\ UNCHANGED <<userState, saved, registered>>
    /\ UNCHANGED pipeVars
    /\ UNCHANGED auxVars
    /\ UNCHANGED tokenVars

\* The dict is returned and the call's frame is gone.  To the handler:
\* process_ndvi_coordinates lines 405-428 (the result reply,
\* save_ndvi_analysis, the state reset).
Return ==
    /\ pc = "return"
    /\ pc' = "idle"
    /\ IF entry = "bot"
       THEN /\ advice # "none"
            /\ advice' = "none"
            /\ UNCHANGED registered
            /\ IF SaveKeys \subseteq DOMAIN result
               THEN /\ replies' = replies \o <<"result">>
                    /\ saved' = saved + 1
                    /\ SetUserState("None")
               ELSE \* KeyError in save_ndvi_analysis: caught by `except Exception`
                    /\ replies' = replies \o <<"result", "error">>
                    /\ UNCHANGED <<saved, userState>>
       ELSE UNCHANGED botVars
    /\ result' = NoResult
    /\ UNCHANGED <<sentinel, stac, entry, stageLog, stageOutcome, days, items, idx, dateBound>>
    /\ UNCHANGED auxVars
    /\ UNCHANGED tokenVars

\* every dict analyze_ndvi_only can return: lines 553-561, 569-574,
\* 589-594, 672-680, 688-693, 699-704
AnalyzerResults ==
    {PrimaryResult(StatsDict(m, a, b)) : m \in NdviRange, a, b \in BOOLEAN}
      \cup {SecondaryResult(Float32Mean(m), s) : m \in RawMeans, s \in {0, F32Step}}
      \cup {FailureResult("error"), FailureResult("no_data")}

\* process_ndvi_coordinates lines 379-391 with the await of line 386
\* completed: the loading reply is out and a dict is back in ndvi_result
Handler_AnalyzerReturned ==
    /\ pc = "idle"
    /\ userState = "awaiting_ndvi_coords"
    /\ replies' = <<"loading_satellite">>
    /\ result' \in AnalyzerResults
    /\ entry' = "bot"
    /\ pc' = "return"
    /\ UNCHANGED <<sentinel, stac, stageLog, stageOutcome, days, items, idx, dateBound>>
    /\ UNCHANGED <<userState, saved, advice, registered>>
    /\ UNCHANGED auxVars
    /\ UNCHANGED tokenVars

\* time passes
Tick ==
    /\ now < MaxTime
    /\ now' = now + 1
    /\ UNCHANGED <<impl, token, tokenExpires, lifetime, issued, exchanges, callPc, callRet,
                   callLate>>
    /\ UNCHANGED pipeVars
    /\ UNCHANGED botVars
    /\ UNCHANGED auxVars

\* ------------------------- the provider called on its own: get_ndvi
MaxPixels == 3
MaxAttempts == 4

\* the values of `days` get_ndvi is called with
InitialDays == {1, DefaultDays, 50, 120}

\* float32 NDVI samples of the Process API (sampleType FLOAT32)
PixelValues == {-4 * F32Step, 0, 8 * F32Step, 12 * F32Step}

\* evaluatePixel of sentinel_ndvi.py: a cloud, shadow, snow or cirrus
\* pixel, or one with B08 + B04 = 0, is returned as ndvi 0.0 with dataMask 0
MaskedPixel == [ndvi |-> 0, dataMask |-> 0]

Pixels == {MaskedPixel} \cup {[ndvi |-> v, dataMask |-> 1] : v \in PixelValues}

PixelLists == UNION {[1..n -> Pixels] : n \in 0..MaxPixels}

\* what the Process API answered
ProcessKinds == {"status_400", "http_error", "exception", "json"}

\* the nearest integer to a / n
RoundDiv(a, n) == (2 * a + n) \div (2 * n)

ISqrt(n) == CHOOSE r \in 0..(2 * TicksPerUnit) : r * r <= n /\ n < (r + 1) * (r + 1)

\* _flatten_and_filter: every finite number of the ndvi array is kept
FlattenAndFilter(px) == [i \in 1..Len(px) |-> px[i].ndvi]

\* the values of the pixels the evalscript declared valid
ValidValues(px) == FlattenAndFilter(SelectSeq(px, LAMBDA q : q.dataMask = 1))

SumSquares(values, m) ==
    SeqSum([i \in 1..Len(values) |-> (values[i] - m) * (values[i] - m)])

\* _compute_stats on a non-empty list
ComputeStats(values) ==
    LET m == RoundDiv(SeqSum(values), Len(values)) IN
    [mean |-> m,
     min |-> SeqMin(values),
     max |-> SeqMax(values),
     stdev |-> ISqrt(SumSquares(values, m) \div Len(values))]

\* the window of the request: crop_analyzer.py line 124, sentinel_ndvi.py line 84
Window(d) == IF impl = "crop_analyzer" THEN d ELSE Min2(d, MaxDays)

\* the window of the retry: min(days * 2, 90)
Widened(d) == Min2(d * 2, MaxDays)

ProviderFailure(why) == [success |-> FALSE, error |-> why]

\* crop_analyzer.py lines 131-140
CropSuccess(stats) ==
    [success |-> TRUE, ndvi_value |-> stats.mean, min |-> stats.min, max |-> stats.max,
     std |-> stats.stdev, date |-> stats.date, status |-> InterpretNdvi(stats.mean)]

\* sentinel_ndvi.py lines 158-163
PixelSuccess(values) ==
    LET st == ComputeStats(values) IN
    [success |-> TRUE, mean |-> st.mean, min |-> st.min, max |-> st.max,
     stdev |-> st.stdev, date_range |-> "date_range", status |-> InterpretNdvi(st.mean)]

\* sentinel_ndvi.py lines 166-170 over the dict of lines 346-365: an absent
\* mean becomes 0.0, an absent min 0.0, an absent max 1.0
StatsSuccess(mean, hasMean, hasMin, hasMax) ==
    LET m == IF hasMean THEN mean ELSE 0 IN
    [success |-> TRUE, mean |-> m,
     min |-> IF hasMin THEN Max2(NdviMin, mean - StatSpread) ELSE 0,
     max |-> IF hasMax THEN Min2(NdviMax, mean + StatSpread) ELSE Lit(1, 1),
     stdev |-> IF hasMin /\ hasMax THEN StatSpread ELSE 0,
     date |-> "date", status |-> InterpretNdvi(m)]

provFrame == <<sentinel, stac, entry, stageLog, stageOutcome, items, idx, dateBound>>

\* a caller invokes get_ndvi(lat, lon, days)
Provider_Call ==
    /\ pc = "idle"
    /\ \E d \in InitialDays : days' = d
    /\ attempt' = 1
    /\ requested' = << >>
    /\ pixels' = << >>
    /\ statsBody' = "none"
    /\ UNCHANGED month
    /\ result' = NoResult
    /\ pc' = "p_token"
    /\ UNCHANGED provFrame
    /\ UNCHANGED <<usedValid, geoVars>>
    /\ UNCHANGED tokenVars
    /\ UNCHANGED botVars

\* get_ndvi up to `if not token`: sentinel_ndvi.py lines 72-77,
\* crop_analyzer.py lines 111-113
Provider_Token ==
    /\ pc = "p_token"
    /\ IF impl = "sentinel_ndvi" /\ attempt > MaxAttempts
       THEN /\ result' = ProviderFailure("max_attempts")
            /\ pc' = "p_return"
            /\ UNCHANGED <<token, tokenExpires, issued, exchanges>>
       ELSE IF CacheValid
       THEN /\ pc' = "p_request"
            /\ UNCHANGED <<token, tokenExpires, issued, exchanges, result>>
       ELSE /\ exchanges < MaxExchanges
            /\ exchanges' = exchanges + 1
            /\ \E outcome \in ExchangeOutcomes :
                 LET fresh == issued + 1 IN
                 /\ token' = TokenAfter(outcome, fresh)
                 /\ tokenExpires' = ExpiresAfter(outcome)
                 /\ issued' = IF outcome = "ok" THEN fresh ELSE issued
                 /\ IF ReturnedAfter(outcome, fresh) # NoToken
                    THEN pc' = "p_request" /\ UNCHANGED result
                    ELSE pc' = "p_return" /\ result' = ProviderFailure("authorization")
    /\ UNCHANGED <<days, provFrame>>
    /\ UNCHANGED <<histVars, provVars, geoVars>>
    /\ UNCHANGED <<impl, now, lifetime, callPc, callRet, callLate>>
    /\ UNCHANGED botVars

\* crop_analyzer.py lines 122-150: the Statistical API request and what
\* follows from its answer
CropRequest ==
    \E kind \in StatsKinds, mean \in NdviRange, hasMin, hasMax \in BOOLEAN :
      IF kind = "stats"
      THEN /\ result' = CropSuccess(StatsDict(mean, hasMin, hasMax))
           /\ pc' = "p_return"
           /\ UNCHANGED days
      ELSE IF days < MaxDays
           THEN /\ days' = Widened(days)
                /\ pc' = "p_token"
                /\ UNCHANGED result
           ELSE /\ result' = ProviderFailure("no_data")
                /\ pc' = "p_return"
                /\ UNCHANGED days

\* sentinel_ndvi.py lines 331-348: find_stats returns nothing, or an object
\* in which `mean` (Mean, average) is a number, or one in which it is not
StatsBody(found, hasMean) ==
    IF ~found THEN "absent" ELSE IF hasMean THEN "mean" ELSE "no_mean"

\* sentinel_ndvi.py lines 142-179: the Process API request and what follows
SentinelRequest ==
    \E kind \in ProcessKinds, px \in PixelLists :
      CASE kind = "status_400" ->
             /\ UNCHANGED <<pixels, statsBody>>
             /\ IF Widened(days) = days
                THEN /\ result' = ProviderFailure("no_data")
                     /\ pc' = "p_return"
                     /\ UNCHANGED <<days, attempt>>
                ELSE /\ days' = Widened(days)
                     /\ attempt' = attempt + 1
                     /\ pc' = "p_token"
                     /\ UNCHANGED result
        [] kind \in {"http_error", "exception"} ->
             /\ result' = ProviderFailure(kind)
             /\ pc' = "p_return"
             /\ UNCHANGED <<days, attempt, pixels, statsBody>>
        [] OTHER ->
             /\ pixels' = px
             /\ pc' = "p_return"
             /\ UNCHANGED <<days, attempt>>
             /\ IF FlattenAndFilter(px) # << >>
                THEN /\ result' = PixelSuccess(FlattenAndFilter(px))
                     /\ UNCHANGED statsBody
                ELSE \* no values: the Statistical API as a fallback
                     \E found, hasMean, hasMin, hasMax \in BOOLEAN, mean \in NdviRange :
                       /\ statsBody' = StatsBody(found, hasMean)
                       /\ result' = IF found
                                    THEN StatsSuccess(mean, hasMean, hasMin, hasMax)
                                    ELSE ProviderFailure("no_ndvi")

Provider_Request ==
    /\ pc = "p_request"
    /\ requested' = Append(requested, Window(days))
    /\ IF impl = "crop_analyzer"
       THEN CropRequest /\ UNCHANGED <<attempt, pixels, statsBody>>
       ELSE SentinelRequest
    /\ UNCHANGED month
    /\ UNCHANGED provFrame
    /\ UNCHANGED <<usedValid, geoVars>>
    /\ UNCHANGED tokenVars
    /\ UNCHANGED botVars

\* get_ndvi returns its dict
Provider_Return ==
    /\ pc = "p_return"
    /\ pc' = "idle"
    /\ UNCHANGED <<days, result, provFrame>>
    /\ UNCHANGED auxVars
    /\ UNCHANGED tokenVars
    /\ UNCHANGED botVars

\* ------------------------- the calendar estimate: NDVIAnalyzer.analyze
Months == 1..12

\* a variant with a summer base of 0.95
BaseNdvi_High(m) ==
    IF 3 <= m /\ m <= 5 THEN Lit(45, 100)
    ELSE IF 6 <= m /\ m <= 8 THEN Lit(95, 100)
    ELSE IF 9 <= m /\ m <= 11 THEN Lit(40, 100)
    ELSE Lit(25, 100)

\* _simulate_sentinel_data lines 65-73
BaseNdvi(m) ==
    IF 3 <= m /\ m <= 5 THEN Lit(45, 100)
    ELSE IF 6 <= m /\ m <= 8 THEN Lit(65, 100)
    ELSE IF 9 <= m /\ m <= 11 THEN Lit(40, 100)
    ELSE Lit(25, 100)

\* np.random.uniform(-0.1, 0.1)
JitterRange == Lit(-1, 10)..Lit(1, 10)

\* the dict of lines 78-83; nir, red and cloud_coverage are independent draws
SimulateSentinelData(m, jitter) ==
    [ndvi |-> BaseNdvi(m) + jitter, nir |-> "nir", red |-> "red",
     cloud_coverage |-> "cloud_coverage"]

\* analyze lines 140-169; calculate_health_status compares with >= against
\* the thresholds 0.6, 0.4, 0.2 of config.py
AnalyzeResult(data) ==
    [ndvi |-> data.ndvi,
     health_uz |-> InterpretNdvi(data.ndvi),
     health_ru |-> InterpretNdvi(data.ndvi),
     moisture |-> "moisture",
     temperature |-> "temperature",
     recommendations_uz |-> "recommendations",
     recommendations_ru |-> "recommendations",
     date |-> "date",
     cloud_coverage |-> data.cloud_coverage]

Estimate_Analyze ==
    /\ pc = "idle"
    /\ \E jitter \in JitterRange :
         result' = AnalyzeResult(SimulateSentinelData(month, jitter))
    /\ pc' = "e_return"
    /\ UNCHANGED <<days, provFrame>>
    /\ UNCHANGED auxVars
    /\ UNCHANGED tokenVars
    /\ UNCHANGED botVars

Estimate_Return ==
    /\ pc = "e_return"
    /\ pc' = "idle"
    /\ UNCHANGED <<days, result, provFrame>>
    /\ UNCHANGED auxVars
    /\ UNCHANGED tokenVars
    /\ UNCHANGED botVars

\* the calendar moves on to the next month
MonthPasses ==
    /\ pc = "idle"
    /\ month' = (month % 12) + 1
    /\ UNCHANGED <<attempt, pixels, statsBody>>
    /\ UNCHANGED <<histVars, geoVars>>
    /\ UNCHANGED pipeVars
    /\ UNCHANGED tokenVars
    /\ UNCHANGED botVars

\* ------------- the secondary provider's arithmetic on one scene's bands
\* 8-bit samples of the bands B08 (nir) and B04 (red): convert('L')
BandValues == {0, 40, 120, 200}

BandPixels == {[nir |-> n, red |-> r] : n, r \in BandValues}

BandLists == UNION {[1..n -> BandPixels] : n \in 0..MaxPixels}

\* line 641: (nir - red) / (nir + red + 1e-6) in float32, then line 642.
\* With nir + red = 0 the quotient is 0 / 1e-6 = 0.0; for the samples above
\* the float32 sum nir + red + 1e-6 is nir + red.
PixelNdvi(q) ==
    IF q.nir + q.red = 0 THEN 0
    ELSE Max2(NdviMin, Min2(NdviMax,
             RoundDiv((q.nir - q.red) * TicksPerUnit, (q.nir + q.red) * F32Step) * F32Step))

\* line 645: valid_mask
InValidMask(v) == v > ValidLow /\ v < ValidHigh

\* ndvi[valid_mask]
MaskedNdvi(px) ==
    SelectSeq([i \in 1..Len(px) |-> PixelNdvi(px[i])], InValidMask)

\* the same, without the pixels whose divisor nir + red is zero
MaskedNdviNonZeroDivisor(px) ==
    MaskedNdvi(SelectSeq(px, LAMBDA q : q.nir + q.red # 0))

\* lines 650-680 for the values under the mask
SceneResult(values) ==
    LET mean == Float32Mean(RoundDiv(SeqSum(values), Len(values))) IN
    [ndvi_value |-> mean,
     status |-> SecondaryStatus(mean),
     summary |-> StatusKey(SecondaryStatus(mean)),
     date |-> "date",
     min |-> SeqMin(values),
     max |-> SeqMax(values),
     std |-> ISqrt(SumSquares(values, mean) \div Len(values))]

\* lines 610-627: the two bands of a scene are downloaded and decoded
Scene_Download ==
    /\ pc = "idle"
    /\ pixels' \in BandLists
    /\ result' = NoResult
    /\ pc' = "s_compute"
    /\ UNCHANGED <<days, provFrame>>
    /\ UNCHANGED <<attempt, month, statsBody>>
    /\ UNCHANGED <<histVars, geoVars>>
    /\ UNCHANGED tokenVars
    /\ UNCHANGED botVars

\* lines 640-680: the index, the mask, and the statistics or `continue`
Scene_Compute ==
    /\ pc = "s_compute"
    /\ result' = IF EnoughValid(Len(MaskedNdvi(pixels)))
                 THEN SceneResult(MaskedNdvi(pixels))
                 ELSE NoResult
    /\ pc' = "s_done"
    /\ UNCHANGED <<days, provFrame>>
    /\ UNCHANGED auxVars
    /\ UNCHANGED tokenVars
    /\ UNCHANGED botVars

\* the scene's arrays are locals of the loop body
Scene_Done ==
    /\ pc = "s_done"
    /\ pc' = "idle"
    /\ pixels' = << >>
    /\ UNCHANGED <<days, result, provFrame>>
    /\ UNCHANGED <<attempt, month, statsBody>>
    /\ UNCHANGED <<histVars, geoVars>>
    /\ UNCHANGED tokenVars
    /\ UNCHANGED botVars

\* ------------------------------------------------------ specifications
HistInit == requested = << >> /\ usedValid = 0

ProvInit == attempt = 0 /\ pixels = << >> /\ month = 1 /\ statsBody = "none"

GeoInit == parsed = << >> /\ geom = NoGeometry

\* The token session alone, under concurrent callers, for either class.
TokenSessionInit ==
    /\ TokenInit
    /\ PipeInit /\ sentinel = TRUE /\ stac = TRUE
    /\ BotInit
    /\ HistInit /\ ProvInit /\ GeoInit

TokenNext ==
    \/ \E c \in Callers : GetAccessToken_Begin(c)
    \/ \E c \in Callers : GetAccessToken_Response(c)
    \/ Tick

SpecToken == TokenSessionInit /\ [][TokenNext]_vars

\* One SentinelNDVI object of either class, get_ndvi called on it directly.
ProviderInit ==
    /\ TokenInit /\ lifetime = NominalLifetime
    /\ PipeInit /\ sentinel = TRUE /\ stac = TRUE
    /\ BotInit
    /\ HistInit /\ ProvInit /\ GeoInit

ProviderNext ==
    \/ Provider_Call
    \/ Provider_Token
    \/ Provider_Request
    \/ Provider_Return

SpecProvider == ProviderInit /\ [][ProviderNext]_vars

\* The geometry of one message, for every list of numbers it can parse to.
GeometryInit ==
    /\ TokenInit /\ impl = "crop_analyzer" /\ lifetime = NominalLifetime
    /\ PipeInit /\ sentinel = TRUE /\ stac = TRUE
    /\ userState = "awaiting_ndvi_coords"
    /\ replies = <<"send_coordinates">>
    /\ saved = 0
    /\ advice = "none"
    /\ registered = TRUE
    /\ HistInit /\ ProvInit
    /\ parsed \in TokenLists
    /\ geom = NoGeometry

GeometryNext == Geometry_Resolve

SpecGeometry == GeometryInit /\ [][GeometryNext]_vars

\* What process_ndvi_coordinates does with each dict analyze_ndvi_only can
\* hand back, from the loading reply to the end of the handler.
ReplyNext ==
    \/ PressNdviButton
    \/ PressBack
    \/ Handler_AnalyzerReturned
    \/ Handler_Advice
    \/ Return

ReplyInit ==
    /\ TokenInit /\ impl = "crop_analyzer" /\ lifetime = NominalLifetime
    /\ PipeInit /\ sentinel = TRUE /\ stac = TRUE
    /\ BotInit
    /\ HistInit /\ ProvInit /\ GeoInit

SpecReply == ReplyInit /\ [][ReplyNext]_vars

\* The menu of handle_message, for a user with or without a row in users
\* and every state the row can hold.
MenuInit ==
    /\ TokenInit /\ impl = "crop_analyzer" /\ lifetime = NominalLifetime
    /\ PipeInit /\ sentinel = TRUE /\ stac = TRUE
    /\ registered \in BOOLEAN
    /\ userState \in UserStates
    /\ ~registered => userState = "None"
    /\ replies = << >>
    /\ saved = 0
    /\ advice = "none"
    /\ HistInit /\ ProvInit /\ GeoInit

MenuNext ==
    \/ PressPlantButton
    \/ PressNdviButton
    \/ PressCreditButton
    \/ PressAdviceButton
    \/ PressSettingsButton
    \/ PressBack
    \/ HandleText
    \/ LanguageCallback

SpecMenu == MenuInit /\ [][MenuNext]_vars

\* One NDVIAnalyzer, asked for its estimate month after month.
EstimateInit ==
    /\ TokenInit /\ impl = "crop_analyzer" /\ lifetime = NominalLifetime
    /\ PipeInit /\ sentinel = TRUE /\ stac = TRUE
    /\ BotInit
    /\ HistInit /\ ProvInit /\ GeoInit

EstimateNext ==
    \/ Estimate_Analyze
    \/ Estimate_Return
    \/ MonthPasses

SpecEstimate == EstimateInit /\ [][EstimateNext]_vars

\* The statistics of one scene, for every content of its two bands.
SceneInit ==
    /\ TokenInit /\ impl = "crop_analyzer" /\ lifetime = NominalLifetime
    /\ PipeInit /\ sentinel = TRUE /\ stac = TRUE
    /\ BotInit
    /\ HistInit /\ ProvInit /\ GeoInit

SceneNext ==
    \/ Scene_Download
    \/ Scene_Compute
    \/ Scene_Done

SpecScene == SceneInit /\ [][SceneNext]_vars

\* The bot and the pipeline of one CropAnalyzer, one request at a time.
Init ==
    /\ TokenInit /\ impl = "crop_analyzer" /\ lifetime = NominalLifetime
    /\ PipeInit
    /\ BotInit
    /\ HistInit /\ ProvInit /\ GeoInit

Next ==
    \/ PressNdviButton
    \/ PressBack
    \/ ProcessNdviCoordinates
    \/ AnalyzeNdviOnly
    \/ GetNdvi_Token
    \/ GetNdvi_Statistics
    \/ TrySecondary
    \/ TryScene
    \/ Return

Spec == Init /\ [][Next]_vars

\* ================================================================ claims
Rank(stage) == CASE stage = "primary" -> 1 [] stage = "secondary" -> 2 [] OTHER -> 3

Entered(stage) == \E i \in DOMAIN stageLog : stageLog[i] = stage

\* the stages were entered in the order primary, secondary, estimate, each
\* at most once
StrictlyForward ==
    \A i, j \in DOMAIN stageLog : i < j => Rank(stageLog[i]) < Rank(stageLog[j])

\* a stage that succeeded is the last one entered
SuccessIsTerminal ==
    \A i \in DOMAIN stageLog :
        stageOutcome[stageLog[i]] = "success" => i = Len(stageLog)

\* C1 as stated: in one run the stages are entered strictly in the order
\* primary, secondary, estimate, none twice; the secondary stage is entered
\* only after the primary provider has returned a failure; after a success
\* no later stage is entered.
C1_StagesForwardAfterPrimaryFailure ==
    /\ StrictlyForward
    /\ SuccessIsTerminal
    /\ Entered("secondary") => stageOutcome["primary"] = "failure"

\* C1, amended: as above, but the secondary stage is entered either after
\* the primary provider has returned a failure or when no primary provider
\* is configured (self.sentinel is None), in which case the primary stage is
\* skipped.
C1_StagesForward ==
    /\ StrictlyForward
    /\ SuccessIsTerminal
    /\ Entered("secondary") => (stageOutcome["primary"] = "failure" \/ ~sentinel)
    /\ Entered("primary") => sentinel

C1_Witness ==
    /\ pc = "return"
    /\ stageLog = <<"primary", "secondary">>
    /\ stageOutcome["primary"] = "failure"
    /\ stageOutcome["secondary"] = "success"

BothFailed ==
    /\ pc = "return"
    /\ stageOutcome["primary"] = "failure"
    /\ stageOutcome["secondary"] = "failure"

\* C2: when the primary and the secondary provider both fail, the result
\* returned is present, is tagged as an estimate and has a value in [0,1].
C2_EstimateWhenBothFail ==
    BothFailed =>
        /\ result # NoResult
        /\ result.status = "estimate"
        /\ 0 <= result.ndvi_value /\ result.ndvi_value <= TicksPerUnit

\* C3: a request with a valid geometry never shows the user the generic
\* error message; it ends with the NDVI result.
C3_NoGenericError ==
    \A i \in DOMAIN replies : replies[i] # "error"

\* the names under which a result could carry its tier
TierKeys == {"sourceTier", "source_tier", "source", "tier", "provider"}

CarriesTier(res, stage) == \E k \in TierKeys \cap DOMAIN res : res[k] = stage

\* C4: a returned result carries the identifier of the stage that produced
\* it; after a primary failure and a secondary success the identifier says
\* secondary and the status is the classification of the value.
C4_TierAttached ==
    /\ (pc = "return" /\ stageLog # << >>) =>
           CarriesTier(result, stageLog[Len(stageLog)])
    /\ (pc = "return" /\ stageOutcome["primary"] = "failure"
                      /\ stageOutcome["secondary"] = "success") =>
           /\ CarriesTier(result, "secondary")
           /\ result.status = InterpretNdvi(result.ndvi_value)

PrimarySuccess == pc = "return" /\ stageOutcome["primary"] = "success"

\* C5: the status of a mean v reported by the primary provider is
\* "excellent" iff v >= 0.6, "good" iff 0.4 <= v < 0.6, "medium" iff
\* 0.2 <= v < 0.4 and "bad" iff v < 0.2; 0.65 is excellent, 0.35 medium,
\* 0.10 bad.
C5_PrimaryClassification ==
    PrimarySuccess =>
        LET v == result.ndvi_value
            st == result.status
        IN /\ st \in {"excellent", "good", "medium", "bad"}
           /\ (st = "excellent") <=> (v >= Lit(6, 10))
           /\ (st = "good") <=> (Lit(4, 10) <= v /\ v < Lit(6, 10))
           /\ (st = "medium") <=> (Lit(2, 10) <= v /\ v < Lit(4, 10))
           /\ (st = "bad") <=> (v < Lit(2, 10))
           /\ (v = Lit(65, 100)) => st = "excellent"
           /\ (v = Lit(35, 100)) => st = "medium"
           /\ (v = Lit(10, 100)) => st = "bad"

C5_Witness ==
    /\ PrimarySuccess
    /\ result.ndvi_value = Lit(6, 10)
    /\ result.status = "excellent"

SecondarySuccess == pc = "return" /\ stageOutcome["secondary"] = "success"

NoResponseYet == exchanges = Cardinality(InFlight) /\ issued = 0

\* C7: callers that ask for a token before any is cached share one
\* exchange: while no response has arrived, at most one request was sent.
C7_SingleFlight ==
    NoResponseYet => exchanges <= 1

\* C8: no call returns a token at or after the expiry the provider reported
\* for it minus the safety margin.
C8_NeverNearExpiry ==
    \A c \in Callers : ~callLate[c]

SucceededOnce == issued > 0

BeforeCachedExpiry == tokenExpires # NoExpiry /\ now < tokenExpires

\* C9: once an exchange has succeeded, a call that starts before the cached
\* expiry returns the cached token and sends no request.
C9_CachedWindow ==
    [][\A c \in Callers :
          (GetAccessToken_Begin(c) /\ SucceededOnce /\ BeforeCachedExpiry) =>
              /\ exchanges' = exchanges
              /\ token # NoToken
              /\ callRet'[c] = token]_vars

\* C10: a call whose exchange fails returns no token and leaves the cached
\* token and the cached expiry as they were.
C10_FailureNotCached ==
    [][\A c \in Callers :
          (GetAccessToken_Response(c) /\ callRet'[c] = NoToken) =>
              /\ token' = token
              /\ tokenExpires' = tokenExpires]_vars

\* the scene loop ended without a result: the search had returned scenes
ScenesAllDiscarded ==
    /\ pc = "return"
    /\ stageOutcome["secondary"] = "failure"
    /\ items > 0

\* C13: the secondary provider takes the scenes the capped search returned
\* one after the other, newest first, and returns a failure only when every
\* returned scene has been tried and discarded.
C13_FailureAfterEveryCandidate ==
    /\ pc = "scene" => (1 <= idx /\ idx <= items)
    /\ ScenesAllDiscarded => idx = items

Success == PrimarySuccess \/ SecondarySuccess

\* C16: every successful result of the primary or the secondary provider
\* has min <= value <= max, also when the response lacks the min or the max
\* field and when the mean is negative.
C16_ValueWithinMinMax ==
    Success => (result.min <= result.ndvi_value /\ result.ndvi_value <= result.max)

\* C17: every result handed to the caller has a status key among excellent,
\* good, medium, bad and estimate.
C17_StatusKeyInSet ==
    pc = "return" =>
        result.status \in {"excellent", "good", "medium", "bad", "estimate"}

\* C12: the secondary provider discards a scene with fewer than 100 valid
\* pixels and goes on to the next: the statistics returned are never those
\* of a scene with fewer than 100 valid pixels (first scene sparse, second
\* with 400 valid pixels: the result is the second's).
C12_SparseSceneDiscarded ==
    SecondarySuccess => usedValid >= 100

\* get_ndvi is at its first line and no token comes back from the session
NoTokenObtained == GetNdvi_Token /\ ~CacheValid /\ issued' = issued

\* C15: when no token can be obtained the primary provider fails without
\* sending a statistics request, and the run goes on to the secondary
\* provider instead of ending.
C15_NoTokenEscalates ==
    [][NoTokenObtained =>
          /\ requested' = requested
          /\ stageOutcome'["primary"] = "failure"
          /\ pc' = "try_secondary"
          /\ result' = NoResult]_vars

\* the secondary stage was entered after a primary stage that sent nothing
C15_Witness ==
    /\ stageLog = <<"primary", "secondary">>
    /\ stageOutcome["primary"] = "failure"
    /\ requested = << >>
    /\ token = NoToken

\* get_ndvi returned statistics it computed from the pixels of a response
FromPixels == pc = "p_return" /\ result # NoResult /\ "date_range" \in DOMAIN result

\* C11: the mean the primary provider reports is the mean over the pixels
\* the provider declared valid; a pixel returned with dataMask 0 has no part
\* in the reported mean, min, max or standard deviation.
C11_MaskedPixelsExcluded ==
    FromPixels =>
        /\ ValidValues(pixels) # << >>
        /\ result.mean = ComputeStats(ValidValues(pixels)).mean
        /\ result.min = ComputeStats(ValidValues(pixels)).min
        /\ result.max = ComputeStats(ValidValues(pixels)).max
        /\ result.stdev = ComputeStats(ValidValues(pixels)).stdev

\* C14: a request without data is followed by one with the window doubled,
\* no request asks for more than the 90-day ceiling whatever `days` the call
\* started with, and the no-data failure is returned only with the window at
\* the ceiling.
C14_WindowDoubledUpToCeiling ==
    /\ \A i \in DOMAIN requested : requested[i] <= MaxDays
    /\ \A i \in DOMAIN requested :
           i > 1 => requested[i] = Min2(2 * requested[i - 1], MaxDays)
    /\ (pc = "p_return" /\ result = ProviderFailure("no_data")) =>
           requested[Len(requested)] >= MaxDays

Resolved == geom # NoGeometry

LatInRange(x) == -90 <= x /\ x <= 90
LonInRange(x) == -180 <= x /\ x <= 180

AllInRange(c) ==
    /\ \A i \in DOMAIN Lats(c) : LatInRange(Lats(c)[i])
    /\ \A i \in DOMAIN Lons(c) : LonInRange(Lons(c)[i])

ValidLength(c) == Len(c) = 2 \/ Len(c) = 4 \/ (Len(c) >= 6 /\ Len(c) % 2 = 0)

\* C18: numbers of which any one latitude is outside [-90,90] or any one
\* longitude outside [-180,180] are rejected as an invalid geometry, in
\* point, box and polygon mode, also when the center comes out in range.
C18_AnyOutOfRangeRejected ==
    (Resolved /\ ~AllInRange(parsed)) => geom = InvalidGeometry

\* C19: 2, 4 or an even number >= 6 of numbers, all in range, resolve to a
\* center and a box (minLon, minLat, maxLon, maxLat) that contains the
\* center, in whatever order the corners or vertices come.
C19_BoxContainsCenter ==
    (Resolved /\ ValidLength(parsed) /\ AllInRange(parsed)) =>
        /\ geom # InvalidGeometry
        /\ EffectiveBBox(geom)[1] <= geom.lon * DegScale
        /\ geom.lon * DegScale <= EffectiveBBox(geom)[3]
        /\ EffectiveBBox(geom)[2] <= geom.lat * DegScale
        /\ geom.lat * DegScale <= EffectiveBBox(geom)[4]

Accepted == Resolved /\ geom # InvalidGeometry

\* C21: the statistics request of the primary provider is made for the box
\* resolved from the user's area (the normalized box, or the envelope of the
\* polygon's vertices); a buffered box around the point is used only for a
\* single point.
C21_RequestUsesResolvedBox ==
    (Accepted /\ geom.mode \in {"bbox", "polygon"}) =>
        RequestBBox(geom) = [i \in 1..4 |-> geom.bbox[i] * DegScale]

\* C22: an invalid geometry is answered with the invalid-coordinates reply
\* and nothing else happens: no provider is called, nothing is requested or
\* saved, and the user is still awaiting coordinates.
C22_InvalidGeometryOnlyReplies ==
    (Resolved /\ geom = InvalidGeometry) =>
        /\ replies = <<"invalid_coords">>
        /\ pc = "idle" /\ stageLog = << >> /\ requested = << >>
        /\ exchanges = 0
        /\ \A st \in Stages : stageOutcome[st] = "none"
        /\ saved = 0
        /\ userState = "awaiting_ndvi_coords"

\* three numbers were answered with the invalid-coordinates reply
C22_Witness ==
    /\ Len(parsed) = 3
    /\ geom = InvalidGeometry
    /\ replies = <<"invalid_coords">>

\* the three-month period a month belongs to: Dec-Feb, Mar-May, Jun-Aug,
\* Sep-Nov
QuarterOf(m) == (m % 12) \div 3

Estimated == pc = "e_return"

\* C24: the calendar estimate always returns a value: for every month it
\* takes one of four distinct base constants, one per quarter, adds a
\* jitter of at most 0.1 either way, and the value lies within [0,1].
C24_EstimateWithinUnit ==
    /\ Cardinality({BaseNdvi(m) : m \in Months}) = 4
    /\ \A m1, m2 \in Months :
           (QuarterOf(m1) = QuarterOf(m2)) <=> (BaseNdvi(m1) = BaseNdvi(m2))
    /\ Estimated =>
           /\ "ndvi" \in DOMAIN result
           /\ result.ndvi - BaseNdvi(month) \in JitterRange
           /\ 0 <= result.ndvi /\ result.ndvi <= TicksPerUnit

\* the highest estimate: August, jitter +0.1
C24_Witness ==
    /\ Estimated
    /\ month = 8
    /\ result.ndvi = Lit(65, 100) + Lit(1, 10)

SceneComputed == pc = "s_done" /\ result # NoResult

\* C23: in the secondary provider's pixel-wise computation a pixel whose
\* divisor nir + red is zero is outside the valid-pixel set: the reported
\* mean, min, max and standard deviation are those of the other pixels.
C23_ZeroDivisorExcluded ==
    SceneComputed =>
        /\ MaskedNdviNonZeroDivisor(pixels) # << >>
        /\ result = SceneResult(MaskedNdviNonZeroDivisor(pixels))

ResultReplySent == \E i \in DOMAIN replies : replies[i] = "result"

C26_WindowStrictlyGrows ==
    /\ \A i \in DOMAIN requested : i > 1 => requested[i] > requested[i - 1]
    /\ impl = "sentinel_ndvi" => Len(requested) <= MaxAttempts

\* the cache is written in this step
CacheWritten == token' # token \/ tokenExpires' # tokenExpires

\* C27: under any interleaving of concurrent get_access_token calls the
\* cache is consistent: whenever the cached token or the cached expiry
\* changes, both are written by one exchange (the expiry is that exchange's
\* now + 50 minutes and the token, if any, is the one it issued), a cached
\* token always has an expiry, and every token a call returns was issued
\* by a successful exchange.
C27_CacheConsistent ==
    /\ [](token # NoToken => tokenExpires # NoExpiry)
    /\ [](\A c \in Callers : callRet[c] # NoToken => callRet[c] \in 1..issued)
    /\ [][CacheWritten =>
            /\ tokenExpires' = now + CacheMinutes
            /\ token' = NoToken \/ (token' = issued' /\ issued' = issued + 1)]_vars

\* two overlapping exchanges have both answered: each caller holds its own
\* token and the cache holds the later one
C27_Witness ==
    /\ now = 0
    /\ callRet[1] # NoToken /\ callRet[2] # NoToken
    /\ callRet[1] # callRet[2]
    /\ token = callRet[2]
    /\ InFlight = {}

\* C28: get_ndvi of sentinel_ndvi.py returns success = True only when an
\* NDVI mean was actually present: computed from the pixel values of the
\* Process API, or carried by the statistics the fallback found.  An answer
\* lacking a mean never becomes a success through the default.
C28_SuccessOnlyWithMean ==
    (impl = "sentinel_ndvi" /\ pc = "p_return" /\ result.success) =>
        \/ FlattenAndFilter(pixels) # << >>
        \/ statsBody = "mean"

\* the handler holds the fallback text for the result it was given
FallbackAdviceGiven == pc = "return" /\ entry = "bot" /\ advice \notin {"none", "ai"}

\* C29: for every value classified by _interpret_ndvi (the thresholds 0.2,
\* 0.4 and 0.6 included) the tier of the text _get_fallback_ndvi_advice
\* chooses is the status the result carries.
C29_AdviceTierAgrees ==
    (FallbackAdviceGiven /\ result.status = InterpretNdvi(result.ndvi_value)) =>
        advice = result.status

\* the replies process_ndvi_coordinates can begin with
CoordinateReplies == {"invalid_coords", "loading_satellite"}

\* C30: for every user, registered or not, and every prior state, the reply
\* to a menu button goes with the matching stored state (plant ->
\* awaiting_plant_photo, NDVI -> awaiting_ndvi_coords, credit ->
\* awaiting_credit, back -> no state), and a text that is no button, sent
\* right after the NDVI button, is processed as NDVI coordinates.
C30_ButtonSetsState ==
    /\ [](replies = <<"send_photo">> => userState = "awaiting_plant_photo")
    /\ [](replies = <<"send_coordinates">> => userState = "awaiting_ndvi_coords")
    /\ [](replies = <<"send_credit_data">> => userState = "awaiting_credit")
    /\ [](replies = <<"menu">> => userState = "None")
    /\ [][(replies = <<"send_coordinates">> /\ HandleText) =>
             (replies' # << >> /\ replies'[1] \in CoordinateReplies)]_vars

====
